---------------------------- MODULE Spec2Model ----------------------------
(***************************************************************************)
(* Statusphere: the cache store (status, profile, follow tables), the      *)
(* firehose ingester, Profile Cache Fetch and Follow Sync.                 *)
(*                                                                         *)
(* Tables are sets of rows; the primary keys are enforced by the insert    *)
(* and upsert operators, as SQLite enforces them.  Every `await` of the    *)
(* source is a point where other tasks may run, so every awaited call is   *)
(* one action.  The store has one connection (better-sqlite3 behind        *)
(* Kysely's SqliteDialect): a transaction holds it from BEGIN to           *)
(* COMMIT/ROLLBACK and every other statement waits for it.                 *)
(***************************************************************************)
EXTENDS Integers, Sequences, FiniteSets, Bags

(* ------------------------------ bounds -------------------------------- *)

\* Records one listRecords pagination may return in total.
MaxRecords == 2
\* listRecords requests of one pagination (the remote ends it by then).
MaxPages == 2
\* The clock runs from 0 to MaxTime.
MaxTime == 1
\* fetchAndCacheProfile calls in flight at once.
MaxFetches == 2
\* Rows per insert statement.  The source uses 500 (part_000:161); the model
\* scales it down so that a fetched set spans more than one batch.
BatchSize == 1

(* ------------------------------ values -------------------------------- *)

\* Users whose follows are synced, and the accounts they may follow.
Authors == {"did:alice", "did:bob"}
Subjects == {"did:carol", "did:dave"}
\* at-URIs of follow records.
FollowUris == {"at://f1", "at://f2"}
\* record.value.subject is optional (part_000:144).
NoSubject == "undefined"
\* A follow record is written once: the record at one uri names one account.
SubjectAt(uri) == IF uri = "at://f1" THEN "did:carol" ELSE "did:dave"
\* The records a remote repository may list: with their subject, or lacking it.
RemoteRecords ==
    UNION {{[uri |-> u, subject |-> SubjectAt(u)], [uri |-> u, subject |-> NoSubject]} :
              u \in FollowUris}

\* res.data.cursor: absent, the empty string, or a token naming the next page.
\* (The token a remote returns with its k-th page is written <<"cursor", k>>.)
NoCursor == <<"undefined", 0>>
EmptyCursor == <<"", 0>>
CursorToken(k) == <<"cursor", k>>
\* JavaScript truthiness of a cursor: `while (cursor)` (part_000:151).
Truthy(c) == c # NoCursor /\ c # EmptyCursor

Syncers == {"login", "stale"}
NoTx == "none"

VARIABLES
    now,          \* the clock (new Date())
    follow,       \* table follow: set of rows [uri, authorDid, subjectDid, indexedAt]
    conn,         \* holder of the store's connection: a syncer in a transaction, or NoTx
    txUndo,       \* the follow table at BEGIN, restored by ROLLBACK
    sync,         \* sync[s]: the frame of one fetchAndCacheFollows call
    readResult,   \* history: the last getFollowedDids call made since the latest
                  \* fetchAndCacheFollows call began, and what it returned
    status,       \* table status: set of rows [uri, authorDid, status, createdAt, indexedAt]
    profile,      \* table profile: set of rows keyed by did
    ing,          \* the frame of the ingester's handleEvent call
    applied,      \* history: applied[uri], the last status event applied for uri
    fetches,      \* the fetchAndCacheProfile calls in flight (a bag of frames)
    settled,      \* history: how the last fetchAndCacheProfile call to end ended
    landed,       \* history: landed[did], the profile record last written for did
    script,       \* the events a scripted stream delivers, in order
    pos,          \* how many events of the script were delivered
    staleResult,  \* history: the last isFollowCacheStale call and what it returned
    rendered,     \* history: the last home page, with its author labels
    app           \* the application context: where createAppContext and destroy
                  \* stand, the schema, the ingester, the store

followVars == <<follow, conn, txUndo, sync, readResult>>
ingestVars == <<status, profile, ing, applied, fetches, settled, landed, script, pos>>
appVars == <<staleResult, rendered, app>>
vars == <<now, follow, conn, txUndo, sync, readResult,
          status, profile, ing, applied, fetches, settled, landed, script, pos,
          staleResult, rendered, app>>


(* --------------------------- the follow table -------------------------- *)

Min(a, b) == IF a < b THEN a ELSE b

\* All sequences over S of length at most n.
SeqsUpTo(S, n) == UNION {[1..k -> S] : k \in 0..n}

\* The set of elements of a sequence.
Range(f) == {f[k] : k \in DOMAIN f}

\* WHERE authorDid = did.
EdgesOf(tbl, did) == {r \in tbl : r.authorDid = did}

\* What statements outside a transaction see: the last committed table.
Committed == IF conn = NoTx THEN follow ELSE txUndo

\* getFollowedDids: rows.map((r) => r.subjectDid), a list of DIDs in no
\* particular order, i.e. the bag of the subjectDid column.
getFollowedDids(tbl, authorDid) ==
    LET rows == EdgesOf(tbl, authorDid)
    IN  [d \in {r.subjectDid : r \in rows} |->
            Cardinality({r \in rows : r.subjectDid = d})]

\* One pass of the for loop over res.data.records: records without a subject
\* are skipped, the others are pushed onto follows.
RECURSIVE AccumulateFollows(_, _)
AccumulateFollows(follows, records) ==
    IF records = <<>> THEN follows
    ELSE LET record == Head(records)
             pushed == IF record.subject # NoSubject
                       THEN Append(follows,
                                [uri |-> record.uri, subjectDid |-> record.subject])
                       ELSE follows
         IN  AccumulateFollows(pushed, Tail(records))


\* Instants are milliseconds since the epoch.  date.toISOString() writes an
\* instant as its date-time fields, the most significant first (here: the
\* minutes since the epoch, the seconds, the milliseconds); strings of this
\* form sort as the instants do.  new Date(iso).getTime() reads it back.
ToISOString(ms) == <<ms \div 60000, (ms \div 1000) % 60, ms % 1000>>
DateParse(iso) == iso[1] * 60000 + iso[2] * 1000 + iso[3]
IsoBefore(a, b) ==
    \/ a[1] < b[1]
    \/ a[1] = b[1] /\ a[2] < b[2]
    \/ a[1] = b[1] /\ a[2] = b[2] /\ a[3] < b[3]

\* Mutant: each insert statement reads the clock for its rows.
BatchRows_ClockPerBatch(frame, batch) ==
    {[uri |-> f.uri, authorDid |-> frame.did, subjectDid |-> f.subjectDid,
      indexedAt |-> ToISOString(now)] : f \in Range(batch)}

\* batch.map(...): the rows one insert statement writes.
BatchRows(frame, batch) ==
    {[uri |-> f.uri, authorDid |-> frame.did, subjectDid |-> f.subjectDid,
      indexedAt |-> ToISOString(frame.at)] : f \in Range(batch)}

\* follows.slice(i, i + batchSize)
Batch(frame) ==
    SubSeq(frame.follows, frame.i + 1, Min(frame.i + BatchSize, Len(frame.follows)))

\* Mutant: the table has no primary key.
PrimaryKeyConflict_None(tbl, batch) == FALSE

\* A multi-row INSERT fails as a whole when a uri repeats within it or is
\* already in the table (uri is the primary key, db.ts migration 003).
PrimaryKeyConflict(tbl, batch) ==
    \/ Cardinality({f.uri : f \in Range(batch)}) < Len(batch)
    \/ \E f \in Range(batch) : \E r \in tbl : r.uri = f.uri

\* Mutant: the statements run on db, each in its own implicit transaction.
TransactionOwner_Autocommit(s) == NoTx

\* db.transaction().execute(async (tx) => ...): every statement of the
\* callback runs on tx, which holds the connection until COMMIT or ROLLBACK.
TransactionOwner(s) == s

\* Mutant: the old rows of the author are kept.
DeleteAuthorEdges_Keep(tbl, did) == tbl

\* Mutant: the delete has no WHERE clause.
DeleteAuthorEdges_Everyone(tbl, did) == {}

\* DELETE FROM follow WHERE authorDid = did
DeleteAuthorEdges(tbl, did) == tbl \ EdgesOf(tbl, did)

\* Mutant: the first page is requested again.
RequestCursor_Forgotten(frame) == NoCursor

\* The cursor argument of the next listRecords request.
RequestCursor(frame) == frame.cursor

\* The frame of a call that is not running.
IdleFrame ==
    [pc |-> "idle", did |-> "none", follows |-> <<>>, cursor |-> NoCursor,
     pages |-> 0, at |-> 0, i |-> 0,
     outcome |-> "none", logged |-> "none", threw |-> FALSE,
     \* history, for stating the claims:
     reqs |-> <<>>,        \* the cursor passed in each request
     received |-> <<>>,    \* every record received, page after page
     failedAt |-> "none",  \* the step that raised the error
     old |-> {},           \* the author's committed rows when the call began
     stmts |-> 0,          \* delete/insert statements this call executed
     overlap |-> FALSE,    \* another call for the same author ran meanwhile
     last |-> FALSE]       \* no transaction has committed since this call's

\* Mutant: the catch block logs and rethrows.
OnError_Rethrow(frame, step) ==
    [frame EXCEPT !.pc = "done", !.outcome = "failed", !.logged = "warn",
                  !.threw = TRUE, !.failedAt = step]

\* catch (err) { logger.warn(...) }: the error is logged and swallowed.
OnError(frame, step) ==
    [frame EXCEPT !.pc = "done", !.outcome = "failed", !.logged = "warn",
                  !.threw = FALSE, !.failedAt = step]

Running(s) == sync[s].pc \notin {"idle", "done"}
InCall(s) == sync[s].pc # "idle"

(* ---------------------- the status and profile tables ------------------ *)

StatusCollection == "xyz.statusphere.status"
ProfileCollection == "app.bsky.actor.profile"

\* evt.uri: at://<did>/<collection>/<rkey>, one record key per repository
\* and collection.
AtUri(did, collection) == <<"at:", did, collection>>
StatusUris == {AtUri(did, StatusCollection) : did \in Authors}

\* evt.record as the stream decodes it: a record that passes
\* Status.isRecord and Status.validateRecord, one that fails them, or none
\* (delete events carry no record).
ValidStatusRecords ==
    [kind : {"status"}, status : {"happy", "sad"}, createdAt : {"t1", "t2"}]
InvalidRecord == [kind |-> "invalid", status |-> "", createdAt |-> ""]
NoRecord == [kind |-> "none", status |-> "", createdAt |-> ""]

\* The events the firehose may deliver.
WriteEvents ==
    [event : {"create", "update"}, collection : {StatusCollection, ProfileCollection},
     did : Authors, record : ValidStatusRecords \cup {InvalidRecord}]
DeleteEvents ==
    [event : {"delete"}, collection : {StatusCollection, ProfileCollection},
     did : Authors, record : {NoRecord}]
Events == WriteEvents \cup DeleteEvents
NoEvent == [event |-> "none", collection |-> "", did |-> "", record |-> NoRecord]

\* Mutant: the record is stored without the schema check.
IsStatusWrite_Unchecked(evt) ==
    /\ evt.event \in {"create", "update"}
    /\ evt.collection = StatusCollection

\* The guard of the write branch (part_003:23-31).
IsStatusWrite(evt) ==
    /\ evt.event \in {"create", "update"}
    /\ evt.collection = StatusCollection
    /\ evt.record.kind = "status"

\* Mutant: the delete branch does not compare the collection.
IsStatusDelete_AnyCollection(evt) == evt.event = "delete"

\* The guard of the delete branch (part_003:69-72).
IsStatusDelete(evt) ==
    /\ evt.event = "delete"
    /\ evt.collection = StatusCollection

\* .values({...}) of the status insert.
StatusRowOf(evt, at) ==
    [uri |-> AtUri(evt.did, evt.collection), authorDid |-> evt.did,
     status |-> evt.record.status, createdAt |-> evt.record.createdAt,
     indexedAt |-> ToISOString(at)]

\* Mutant: the row is appended whatever the table holds.
UpsertStatus_Append(tbl, row) == tbl \cup {row}

\* Mutant: a conflict leaves the cached row as it is (ON CONFLICT DO NOTHING).
UpsertStatus_Ignore(tbl, row) ==
    IF \E r \in tbl : r.uri = row.uri THEN tbl ELSE tbl \cup {row}

\* INSERT INTO status ... ON CONFLICT (uri) DO UPDATE SET status, indexedAt.
UpsertStatus(tbl, row) ==
    IF \E r \in tbl : r.uri = row.uri
    THEN {IF r.uri = row.uri
          THEN [r EXCEPT !.status = row.status, !.indexedAt = row.indexedAt]
          ELSE r : r \in tbl}
    ELSE tbl \cup {row}

\* Mutant: the delete has lost its WHERE clause.
DeleteStatus_All(tbl, uri) == {}

\* DELETE FROM status WHERE uri = ...
DeleteStatus(tbl, uri) == {r \in tbl : r.uri # uri}

\* Mutant: the backfill is launched for every status write.
ShouldFetchProfile_Always(tbl, did) == TRUE

\* const profile = await db.selectFrom('profile').where('did', '=', evt.did)
\* ...; if (!profile)
ShouldFetchProfile(tbl, did) == ~\E r \in tbl : r.did = did

\* Mutant: the handler awaits the backfill it has launched.
PcAfterCheck_Awaited(launch) == IF launch THEN "awaiting" ELSE "handled"

\* Where the handler stands after the profile check: the call of
\* fetchAndCacheProfile is not awaited, the handler is at its end.
PcAfterCheck(launch) == "handled"

\* Profile records as getRecord returns them.  Every field is optional; a
\* blob has a ref and a mimeType.
Undefined == "undefined"
Null == "null"
NoBlob == [ref |-> Undefined, mimeType |-> Undefined]
ProfileValues ==
    {[kind |-> "profile", displayName |-> "Alice", description |-> "hello",
      avatar |-> [ref |-> "cid-a", mimeType |-> "image/png"], banner |-> NoBlob],
     [kind |-> "profile", displayName |-> "", description |-> Undefined,
      avatar |-> NoBlob, banner |-> [ref |-> "cid-b", mimeType |-> "image/jpeg"]]}
InvalidProfile ==
    [kind |-> "invalid", displayName |-> Undefined, description |-> Undefined,
     avatar |-> NoBlob, banner |-> NoBlob]
NoProfileValue ==
    [kind |-> "none", displayName |-> Undefined, description |-> Undefined,
     avatar |-> NoBlob, banner |-> NoBlob]

\* x || null
OrNull(x) == IF x = Undefined \/ x = "" THEN Null ELSE x

\* .values({...}) of the profile insert (profile-cache.ts:63-82).
ProfileRowOf(did, record, at) ==
    [did |-> did,
     displayName |-> OrNull(record.displayName),
     description |-> OrNull(record.description),
     avatarCid |-> OrNull(record.avatar.ref),
     avatarMimeType |-> OrNull(record.avatar.mimeType),
     bannerCid |-> OrNull(record.banner.ref),
     bannerMimeType |-> OrNull(record.banner.mimeType),
     indexedAt |-> ToISOString(at)]

\* Mutant: a conflict rewrites the displayName alone.
UpsertProfile_NameOnly(tbl, row) ==
    IF \E r \in tbl : r.did = row.did
    THEN {IF r.did = row.did THEN [r EXCEPT !.displayName = row.displayName] ELSE r :
             r \in tbl}
    ELSE tbl \cup {row}

\* Mutant: the row is appended whatever the table holds.
UpsertProfile_Append(tbl, row) == tbl \cup {row}

\* INSERT INTO profile ... ON CONFLICT (did) DO UPDATE SET every other column.
UpsertProfile(tbl, row) ==
    IF \E r \in tbl : r.did = row.did
    THEN {IF r.did = row.did
          THEN [r EXCEPT !.displayName = row.displayName,
                         !.description = row.description,
                         !.avatarCid = row.avatarCid,
                         !.avatarMimeType = row.avatarMimeType,
                         !.bannerCid = row.bannerCid,
                         !.bannerMimeType = row.bannerMimeType,
                         !.indexedAt = row.indexedAt]
          ELSE r : r \in tbl}
    ELSE tbl \cup {row}

\* The frame of a fetchAndCacheProfile call that has just been made.
NewFetch(did) == [did |-> did, pc |-> "resolve", value |-> NoProfileValue]

\* DELETE FROM profile WHERE did = ...
DeleteProfile(tbl, did) == {r \in tbl : r.did # did}

\* The events of collection app.bsky.actor.profile, as the ingester that
\* subscribes to it sees them: evt.record is a profile record, valid or not.
ProfileEvents ==
    [event : {"create", "update"}, collection : {ProfileCollection},
     did : Authors, record : ProfileValues \cup {InvalidProfile}]
    \cup [event : {"delete"}, collection : {ProfileCollection},
          did : Authors, record : {NoProfileValue}]

\* The guards of the profile branch (part_002:124-127, 157).
IsProfileWrite(evt) ==
    /\ evt.collection = ProfileCollection
    /\ evt.event \in {"create", "update"}
    /\ evt.record.kind = "profile"
IsProfileDelete(evt) ==
    /\ evt.collection = ProfileCollection
    /\ evt.event = "delete"

\* The frame of a handleEvent call that is not running.
IdleIng ==
    [pc |-> "idle", evt |-> NoEvent, at |-> 0,
     \* history, for stating the claims:
     before |-> {},          \* the status table when the handler was entered
     hadProfile |-> FALSE,   \* a profile row of the author existed at entry
     prior |-> NoProfileValue, \* the author's landed profile record at entry
     stmts |-> 0,            \* statements the handler executed
     rows |-> 0,             \* rows its insert or delete affected
     wrote |-> FALSE,        \* its insert or delete was executed by the store
     found |-> "unchecked",  \* what the profile select returned
     launched |-> FALSE,     \* fetchAndCacheProfile was called
     threw |-> FALSE]        \* the handler's promise rejected

\* How a fetchAndCacheProfile call ends: which log line it wrote last, and
\* whether its promise rejected.
NotSettled == [outcome |-> "none", threw |-> FALSE]

\* return after logger.debug(...), and the end of the try block.
Returned(frame, log) == [outcome |-> log, threw |-> FALSE]

\* Mutant: the catch block passes the error on.
FetchCaught_Rethrow(frame) == [outcome |-> "warn", threw |-> TRUE]

\* catch (err) { logger.warn(...) }
FetchCaught(frame) == [outcome |-> "warn", threw |-> FALSE]

\* One frame of the bag of calls in flight moves on, or returns.
Advance(bag, frame, next) == (bag (-) SetToBag({frame})) (+) SetToBag({next})
Retire(bag, frame) == bag (-) SetToBag({frame})

(* ------------------------------- Init --------------------------------- *)

NoRead == [author |-> "none", dids |-> <<>>]

\* const SYNC_INTERVAL_MS = 5 * 60 * 1000
SYNC_INTERVAL_MS == 5 * 60 * 1000

\* Mutant: a cache is stale from the very end of the interval on.
Expired_AtInterval(nowMs, lastSync) == nowMs - lastSync >= SYNC_INTERVAL_MS

\* Date.now() - lastSync > SYNC_INTERVAL_MS
Expired(nowMs, lastSync) == nowMs - lastSync > SYNC_INTERVAL_MS

\* Mutant: an author without rows is treated as freshly synced.
isFollowCacheStale_EmptyIsFresh(tbl, authorDid, nowMs) ==
    LET rows == {r \in tbl : r.authorDid = authorDid} IN
    IF rows = {} THEN FALSE
    ELSE LET row == CHOOSE r \in rows :
                       \A other \in rows : ~IsoBefore(r.indexedAt, other.indexedAt)
         IN  Expired(nowMs, DateParse(row.indexedAt))

\* isFollowCacheStale(authorDid, db) on table tbl at instant nowMs: the
\* author's row with the greatest indexedAt is selected; without a row the
\* cache is stale.
isFollowCacheStale(tbl, authorDid, nowMs) ==
    LET rows == {r \in tbl : r.authorDid = authorDid} IN
    IF rows = {} THEN TRUE
    ELSE LET row == CHOOSE r \in rows :
                       \A other \in rows : ~IsoBefore(r.indexedAt, other.indexedAt)
         IN  Expired(nowMs, DateParse(row.indexedAt))

\* No home page rendered yet.
NoPage == [handles |-> <<>>, labels |-> <<>>]

\* The handle the identity resolver knows for a DID.
HandleOf(did) == IF did = "did:alice" THEN "alice.test" ELSE "bob.test"
\* didHandleMap: each DID resolved to its handle, or to none.
HandleMaps ==
    {[did \in Authors |-> IF did \in known THEN HandleOf(did) ELSE Undefined] :
        known \in SUBSET Authors}

\* selectFrom('status').leftJoin('profile', 'status.authorDid',
\* 'profile.did'): every status row, with the displayName of each profile
\* row of its author, or with NULL when there is none.
LeftJoinProfile(statuses, profiles) ==
    UNION {IF \E p \in profiles : p.did = s.authorDid
           THEN {[uri |-> s.uri, authorDid |-> s.authorDid,
                  displayName |-> p.displayName] :
                    p \in {q \in profiles : q.did = s.authorDid}}
           ELSE {[uri |-> s.uri, authorDid |-> s.authorDid,
                  displayName |-> Null]} : s \in statuses}

\* profileMap[row.authorDid] = { displayName: row.displayName || null }
ProfileMapOf(rows) ==
    [did \in {row.authorDid : row \in rows} |->
        [displayName |-> OrNull((CHOOSE row \in rows : row.authorDid = did).displayName)]]

\* Mutant: the label is the handle whatever the profile says.
AuthorDisplay_HandleOnly(handle, displayName) == <<"@", handle>>

\* authorDisplay: displayName ? `${displayName} (@${handle})` : `@${handle}`
AuthorDisplay(handle, displayName) ==
    IF displayName \notin {Undefined, Null, ""}
    THEN <<displayName, " (@", handle, ")">>
    ELSE <<"@", handle>>

\* The author label of one status of the page:
\* handle = didHandleMap[status.authorDid] || status.authorDid,
\* displayName = profileMap?.[status.authorDid]?.displayName.
AuthorLabel(row, didHandleMap, profileMap) ==
    LET handle == IF didHandleMap[row.authorDid] \notin {Undefined, ""}
                  THEN didHandleMap[row.authorDid] ELSE row.authorDid
        displayName == IF row.authorDid \in DOMAIN profileMap
                       THEN profileMap[row.authorDid].displayName
                       ELSE Undefined
    IN  AuthorDisplay(handle, displayName)

NoStale == [author |-> "none", stale |-> FALSE]

\* The application context once createAppContext has returned it and the
\* ingester was started: all migrations applied, the store open.
Migrations == <<"001", "002", "003">>
RunningApp ==
    [pc |-> "ready", schema |-> Len(Migrations), ingester |-> "running",
     db |-> "open"]

\* The context while createAppContext is inside migrateToLatest, on a
\* database that has `k` migrations applied.
BootingApp(k) ==
    [pc |-> "migrating", schema |-> k, ingester |-> "none", db |-> "open"]

\* The Firehose delivers events from start() until destroy() has finished.
Subscribed(a) == a.ingester \in {"running", "stopping"}

\* Mutant: a destroyed store still takes statements.
StoreClosed_Never(a) == FALSE

\* A destroyed Kysely instance rejects every statement.
StoreClosed(a) == a.db = "closed"

\* Mutant: migrateToLatest drops the migrator's error.
OnMigrationError_Dropped(a) == [a EXCEPT !.pc = "constructing"]

\* if (error) throw error: createAppContext rejects at its await.
OnMigrationError(a) == [a EXCEPT !.pc = "failed"]

\* Mutant: destroy does not await ingester.destroy().
IngesterStopAwaited_Not(a) == TRUE

\* await ingester.destroy() has returned.
IngesterStopAwaited(a) == a.ingester = "destroyed"

\* No call is in progress and none was made.
NothingRunning ==
    /\ conn = NoTx
    /\ txUndo = {}
    /\ sync = [s \in Syncers |-> IdleFrame]
    /\ readResult = NoRead
    /\ ing = IdleIng
    /\ applied = [uri \in StatusUris |-> NoEvent]
    /\ fetches = EmptyBag
    /\ settled = NotSettled
    /\ landed = [did \in Authors |-> NoProfileValue]
    /\ staleResult = NoStale
    /\ rendered = NoPage

\* The store after createDb and migrateToLatest on an empty database, no
\* call in progress; the stream is to deliver `events` (<<>>: any events).
InitWith(events) ==
    /\ now = 0
    /\ follow = {}
    /\ status = {}
    /\ profile = {}
    /\ NothingRunning
    /\ script = events
    /\ pos = 0
    /\ app = RunningApp

Init == InitWith(<<>>)

(* ------------------------------ Follow Sync ---------------------------- *)

\* fetchAndCacheFollows(did, ...) is called (login, or a stale cache).
StartSync(s, did) ==
    /\ sync[s].pc = "idle"
    /\ sync' = [t \in Syncers |->
          IF t = s
          THEN [IdleFrame EXCEPT
                   !.pc = "list", !.did = did,
                   !.old = EdgesOf(Committed, did),
                   !.overlap = \E u \in Syncers \ {s} :
                                  InCall(u) /\ sync[u].did = did]
          ELSE IF InCall(t) /\ sync[t].did = did
               THEN [sync[t] EXCEPT !.overlap = TRUE]
               ELSE sync[t]]
    /\ readResult' = NoRead
    /\ UNCHANGED <<now, follow, conn, txUndo>>
    /\ UNCHANGED <<ingestVars, appVars>>

\* One listRecords request answered: the page is accumulated and the do-while
\* condition read.  When the cursor is absent or empty the loop ends and
\* `now` is taken (part_000:153) before the transaction is awaited.
ListRecords(s, records, cursor) ==
    LET frame == sync[s] IN
    /\ frame.pc = "list"
    /\ Len(frame.received) + Len(records) <= MaxRecords
    /\ Truthy(cursor) => frame.pages + 1 < MaxPages
    /\ sync' = [sync EXCEPT ![s] =
          [frame EXCEPT
              !.reqs = Append(frame.reqs, RequestCursor(frame)),
              !.received = frame.received \o records,
              !.follows = AccumulateFollows(frame.follows, records),
              !.cursor = cursor,
              !.pages = frame.pages + 1,
              !.pc = IF Truthy(cursor) THEN "list" ELSE "begin",
              !.at = IF Truthy(cursor) THEN frame.at ELSE now]]
    /\ UNCHANGED <<now, follow, conn, txUndo, readResult>>
    /\ UNCHANGED <<ingestVars, appVars>>

\* The remote answers the pending request with any page and, unless the
\* bound on requests is reached, any cursor.
ListRecordsResponds(s) ==
    \E records \in SeqsUpTo(RemoteRecords, MaxRecords) :
        \E cursor \in {NoCursor, EmptyCursor, CursorToken(sync[s].pages + 1)} :
            ListRecords(s, records, cursor)

\* A listRecords request fails (network, decode, timeout): the await throws
\* inside the try block.
ListRecordsFails(s) ==
    /\ sync[s].pc = "list"
    /\ sync' = [sync EXCEPT ![s] = OnError(sync[s], "list")]
    /\ UNCHANGED <<now, follow, conn, txUndo, readResult>>
    /\ UNCHANGED <<ingestVars, appVars>>

\* db.transaction().execute: the connection is acquired and BEGIN runs.
TxBegin(s) ==
    /\ sync[s].pc = "begin"
    /\ conn = NoTx
    /\ conn' = TransactionOwner(s)
    /\ txUndo' = follow
    /\ sync' = [sync EXCEPT ![s].pc = "delete"]
    /\ UNCHANGED <<now, follow, readResult>>
    /\ UNCHANGED <<ingestVars, appVars>>

\* Mutant: the statements already executed stay in the table.
Rollback_KeepsWrites(s, step) ==
    /\ follow' = follow
    /\ conn' = NoTx
    /\ txUndo' = {}
    /\ sync' = [sync EXCEPT ![s] = OnError(sync[s], step)]

\* The callback threw: ROLLBACK, the connection is released, the error
\* reaches the catch block.
Rollback(s, step) ==
    /\ follow' = txUndo
    /\ conn' = NoTx
    /\ txUndo' = {}
    /\ sync' = [sync EXCEPT ![s] = OnError(sync[s], step)]

\* tx.deleteFrom('follow').where('authorDid', '=', did)
TxDelete(s, fault) ==
    LET frame == sync[s] IN
    /\ frame.pc = "delete"
    /\ conn = TransactionOwner(s)
    /\ IF fault
       THEN Rollback(s, "delete")
       ELSE /\ follow' = DeleteAuthorEdges(follow, frame.did)
            /\ sync' = [sync EXCEPT ![s] =
                  [frame EXCEPT
                      !.stmts = frame.stmts + 1,
                      !.pc = IF Len(frame.follows) > 0 THEN "insert" ELSE "commit"]]
            /\ UNCHANGED <<conn, txUndo>>
    /\ UNCHANGED <<now, readResult>>
    /\ UNCHANGED <<ingestVars, appVars>>

\* One tx.insertInto('follow').values(batch) of the batch loop.
TxInsert(s, fault) ==
    LET frame == sync[s]
        batch == Batch(frame)
    IN
    /\ frame.pc = "insert"
    /\ conn = TransactionOwner(s)
    /\ IF fault \/ PrimaryKeyConflict(follow, batch)
       THEN Rollback(s, "insert")
       ELSE /\ follow' = follow \cup BatchRows(frame, batch)
            /\ sync' = [sync EXCEPT ![s] =
                  [frame EXCEPT
                      !.stmts = frame.stmts + 1,
                      !.i = frame.i + BatchSize,
                      !.pc = IF frame.i + BatchSize < Len(frame.follows)
                             THEN "insert" ELSE "commit"]]
            /\ UNCHANGED <<conn, txUndo>>
    /\ UNCHANGED <<now, readResult>>
    /\ UNCHANGED <<ingestVars, appVars>>

\* The callback returned: COMMIT, the connection is released, and
\* logger.info(..., 'cached follows').
TxCommit(s) ==
    /\ sync[s].pc = "commit"
    /\ conn = TransactionOwner(s)
    /\ conn' = NoTx
    /\ txUndo' = {}
    /\ sync' = [t \in Syncers |->
          IF t = s
          THEN [sync[s] EXCEPT !.pc = "done", !.outcome = "cached",
                               !.logged = "info", !.last = TRUE]
          ELSE [sync[t] EXCEPT !.last = FALSE]]
    /\ UNCHANGED <<now, follow, readResult>>
    /\ UNCHANGED <<ingestVars, appVars>>

\* The promise of the call settles and its frame is gone.
SyncReturns(s) ==
    /\ sync[s].pc = "done"
    /\ sync' = [sync EXCEPT ![s] = IdleFrame]
    /\ UNCHANGED <<now, follow, conn, txUndo, readResult>>
    /\ UNCHANGED <<ingestVars, appVars>>

(* ------------------------------- readers ------------------------------ *)

\* A request handler calls getFollowedDids(authorDid, db); the select waits
\* for the connection.
ReadFollowedDids(authorDid) ==
    /\ conn = NoTx
    /\ readResult' = [author |-> authorDid,
                      dids |-> getFollowedDids(follow, authorDid)]
    /\ UNCHANGED <<now, follow, conn, txUndo, sync>>
    /\ UNCHANGED <<ingestVars, appVars>>

(* ------------------------------ the ingester -------------------------- *)

\* handleEvent(evt) up to the end of its first statement: `now` is taken,
\* and a valid status write is upserted, a status delete deleted; any other
\* event falls through both branches.  A statement the store rejects
\* (fault) rejects the handler's promise: nothing catches it.
HandleEventCore(evt, fault) ==
    LET uri == AtUri(evt.did, evt.collection)
        executes == IsStatusWrite(evt) \/ IsStatusDelete(evt)
        after == IF fault THEN status
                 ELSE IF IsStatusWrite(evt)
                 THEN UpsertStatus(status, StatusRowOf(evt, now))
                 ELSE IF IsStatusDelete(evt) THEN DeleteStatus(status, uri)
                 ELSE status
    IN
    /\ ing.pc = "idle"
    /\ Subscribed(app)
    /\ IF executes THEN conn = NoTx /\ (StoreClosed(app) => fault) ELSE ~fault
    /\ status' = after
    /\ ing' = [IdleIng EXCEPT
          !.pc = IF IsStatusWrite(evt) /\ ~fault THEN "check" ELSE "handled",
          !.evt = evt,
          !.at = now,
          !.before = status,
          !.hadProfile = \E r \in profile : r.did = evt.did,
          !.prior = landed[evt.did],
          !.stmts = IF executes THEN 1 ELSE 0,
          !.rows = IF fault THEN 0
                   ELSE IF IsStatusWrite(evt) THEN 1
                   ELSE Cardinality(status \ after),
          !.wrote = executes /\ ~fault,
          !.threw = fault]
    /\ UNCHANGED <<now, followVars, appVars, profile, applied, fetches, settled, landed>>

\* The stream delivers an event to the handler.
HandleEvent(evt, fault) ==
    /\ script = <<>>
    /\ HandleEventCore(evt, fault)
    /\ UNCHANGED <<script, pos>>

\* A scripted stream delivers its next event.
DeliverScripted ==
    /\ pos < Len(script)
    /\ HandleEventCore(script[pos + 1], FALSE)
    /\ pos' = pos + 1
    /\ UNCHANGED script

\* After the upsert: the profile select, and when it finds no row
\* fetchAndCacheProfile is called and not awaited.  A select the store
\* rejects rejects the handler's promise.
CheckProfile(fault) ==
    LET did == ing.evt.did
        launch == ~fault /\ ShouldFetchProfile(profile, did)
    IN
    /\ ing.pc = "check"
    /\ conn = NoTx
    /\ StoreClosed(app) => fault
    /\ launch => BagCardinality(fetches) < MaxFetches
    /\ fetches' = IF launch THEN fetches (+) SetToBag({NewFetch(did)}) ELSE fetches
    /\ ing' = [ing EXCEPT
          !.pc = PcAfterCheck(launch),
          !.stmts = ing.stmts + 1,
          !.found = IF fault THEN "unchecked"
                    ELSE IF \E r \in profile : r.did = did THEN "row" ELSE "absent",
          !.launched = launch,
          !.threw = fault]
    /\ UNCHANGED <<now, followVars, appVars, status, profile, applied, settled, landed, script, pos>>

\* The handler's promise settles; the stream may deliver the next event.
\* `applied` keeps, per status URI, the last event the store took.
HandlerReturns ==
    /\ ing.pc = "handled"
    /\ applied' = IF ing.wrote /\ AtUri(ing.evt.did, ing.evt.collection) \in StatusUris
                  THEN [applied EXCEPT ![AtUri(ing.evt.did, ing.evt.collection)] = ing.evt]
                  ELSE applied
    /\ ing' = IdleIng
    /\ UNCHANGED <<now, followVars, appVars, status, profile, fetches, settled, landed, script, pos>>

\* handleEvent(evt) of the ingester that subscribes to the profile
\* collection too, for an event of that collection: the status branches
\* fall through, a valid profile record is upserted with the handler's
\* `now`, a deletion deletes the author's row, and any other event does
\* nothing.  A statement the store rejects rejects the handler's promise.
HandleProfileEvent(evt, fault) ==
    LET executes == IsProfileWrite(evt) \/ IsProfileDelete(evt)
        after == IF fault THEN profile
                 ELSE IF IsProfileWrite(evt)
                 THEN UpsertProfile(profile, ProfileRowOf(evt.did, evt.record, now))
                 ELSE IF IsProfileDelete(evt) THEN DeleteProfile(profile, evt.did)
                 ELSE profile
    IN
    /\ script = <<>>
    /\ ing.pc = "idle"
    /\ Subscribed(app)
    /\ IF executes THEN conn = NoTx /\ (StoreClosed(app) => fault) ELSE ~fault
    /\ profile' = after
    /\ landed' = IF executes /\ ~fault
                 THEN [landed EXCEPT ![evt.did] = evt.record]
                 ELSE landed
    /\ ing' = [IdleIng EXCEPT
          !.pc = "handled",
          !.evt = evt,
          !.at = now,
          !.before = status,
          !.hadProfile = \E r \in profile : r.did = evt.did,
          !.prior = landed[evt.did],
          !.stmts = IF executes THEN 1 ELSE 0,
          !.rows = IF fault THEN 0
                   ELSE IF IsProfileWrite(evt) THEN 1
                   ELSE Cardinality(profile \ after),
          !.wrote = executes /\ ~fault,
          !.threw = fault]
    /\ UNCHANGED <<now, followVars, appVars, status, applied, fetches, settled, script, pos>>

(* ------------------------- Profile Cache Fetch ------------------------ *)

ResolveOutcomes == {"resolved", "throws", "null", "no_pds"}

\* await idResolver.did.resolve(did): with a PDS endpoint the call goes on
\* to getRecord; a rejection, no document or no endpoint end it.
ResolveDid(frame, outcome) ==
    /\ BagIn(frame, fetches)
    /\ frame.pc = "resolve"
    /\ fetches' = IF outcome = "resolved"
                  THEN Advance(fetches, frame, [frame EXCEPT !.pc = "getRecord"])
                  ELSE Retire(fetches, frame)
    /\ settled' = IF outcome = "resolved" THEN settled
                  ELSE IF outcome = "throws" THEN FetchCaught(frame)
                  ELSE Returned(frame, "debug")
    /\ UNCHANGED <<now, followVars, appVars, status, profile, ing, applied, landed, script, pos>>

\* await getRecord(...).catch(() => undefined), then the schema check: a
\* rejection, an absent record and an invalid record end the call.
GetRecord(frame, response) ==
    /\ BagIn(frame, fetches)
    /\ frame.pc = "getRecord"
    /\ fetches' = IF response.kind = "profile"
                  THEN Advance(fetches, frame,
                          [frame EXCEPT !.pc = "upsert", !.value = response])
                  ELSE Retire(fetches, frame)
    /\ settled' = IF response.kind = "profile" THEN settled
                  ELSE Returned(frame, "debug")
    /\ UNCHANGED <<now, followVars, appVars, status, profile, ing, applied, landed, script, pos>>

\* await db.insertInto('profile')...execute(): the row is upserted, or the
\* store rejects the statement and the catch block logs it.
UpsertFetched(frame, fault) ==
    /\ BagIn(frame, fetches)
    /\ frame.pc = "upsert"
    /\ conn = NoTx
    /\ StoreClosed(app) => fault
    /\ profile' = IF fault THEN profile
                  ELSE UpsertProfile(profile, ProfileRowOf(frame.did, frame.value, now))
    /\ fetches' = Retire(fetches, frame)
    /\ settled' = IF fault THEN FetchCaught(frame) ELSE Returned(frame, "cached")
    /\ landed' = IF fault THEN landed ELSE [landed EXCEPT ![frame.did] = frame.value]
    /\ UNCHANGED <<now, followVars, appVars, status, ing, applied, script, pos>>

(* ------------------------- the application context -------------------- *)

\* migrator.migrateToLatest() applies the next pending migration; with none
\* pending migrateToLatest returns and createAppContext goes on.
MigrationApplied ==
    /\ app.pc = "migrating"
    /\ app' = IF app.schema < Len(Migrations)
              THEN [app EXCEPT !.schema = app.schema + 1]
              ELSE [app EXCEPT !.pc = "constructing"]
    /\ UNCHANGED <<now, followVars, ingestVars, staleResult, rendered>>

\* A pending migration fails: the migrator returns its error.
MigrationFails ==
    /\ app.pc = "migrating"
    /\ app.schema < Len(Migrations)
    /\ app' = OnMigrationError(app)
    /\ UNCHANGED <<now, followVars, ingestVars, staleResult, rendered>>

\* createIngester(db, idResolver, logger), and the context is returned.
CreateIngester ==
    /\ app.pc = "constructing"
    /\ app' = [app EXCEPT !.pc = "ready", !.ingester = "created"]
    /\ UNCHANGED <<now, followVars, ingestVars, staleResult, rendered>>

\* ingester.start(), by the owner of the context.
IngesterStart ==
    /\ app.pc = "ready"
    /\ app.ingester = "created"
    /\ app' = [app EXCEPT !.ingester = "running"]
    /\ UNCHANGED <<now, followVars, ingestVars, staleResult, rendered>>

\* destroy() is called: ingester.destroy() begins.
DestroyCalled ==
    /\ app.pc = "ready"
    /\ app' = [app EXCEPT !.pc = "stopping",
                          !.ingester = IF app.ingester = "running" THEN "stopping"
                                       ELSE "destroyed"]
    /\ UNCHANGED <<now, followVars, ingestVars, staleResult, rendered>>

\* The promise of ingester.destroy() resolves: the subscription is over.
IngesterStopped ==
    /\ app.ingester = "stopping"
    /\ app' = [app EXCEPT !.ingester = "destroyed"]
    /\ UNCHANGED <<now, followVars, ingestVars, staleResult, rendered>>

\* await db.destroy(), the second statement of destroy().
DbDestroy ==
    /\ app.pc = "stopping"
    /\ IngesterStopAwaited(app)
    /\ conn = NoTx
    /\ app' = [app EXCEPT !.pc = "destroyed", !.db = "closed"]
    /\ UNCHANGED <<now, followVars, ingestVars, staleResult, rendered>>

(* ------------------------------ staleness ----------------------------- *)

\* await isFollowCacheStale(authorDid, db): the select runs on the
\* connection, Date.now() is read when it has returned.
IsFollowCacheStale(authorDid) ==
    /\ conn = NoTx
    /\ staleResult' = [author |-> authorDid,
                       stale |-> isFollowCacheStale(follow, authorDid, now)]
    /\ UNCHANGED <<now, followVars, ingestVars, rendered, app>>

\* The home page: the statuses are selected with their authors' profiles
\* in one statement, and each is rendered with its author label.  (The
\* statement takes the ten latest statuses; the tables here hold fewer.)
RenderHome(didHandleMap) ==
    LET rows == LeftJoinProfile(status, profile)
        profileMap == ProfileMapOf(rows)
    IN
    /\ conn = NoTx
    /\ ~StoreClosed(app)
    /\ rendered' = [handles |-> didHandleMap,
                    labels |-> [uri \in {row.uri : row \in rows} |->
                        AuthorLabel(CHOOSE row \in rows : row.uri = uri,
                                    didHandleMap, profileMap)]]
    /\ UNCHANGED <<now, followVars, ingestVars, staleResult, app>>

(* -------------------------------- clock ------------------------------- *)

Tick ==
    /\ now < MaxTime
    /\ now' = now + 1
    /\ UNCHANGED <<followVars, ingestVars, appVars>>

(* --------------------------- specifications --------------------------- *)

FollowNext(callers) ==
    \/ \E s \in callers, did \in Authors : StartSync(s, did)
    \/ \E s \in callers : ListRecordsResponds(s)
    \/ \E s \in callers : ListRecordsFails(s)
    \/ \E s \in callers : TxBegin(s)
    \/ \E s \in callers, fault \in BOOLEAN : TxDelete(s, fault)
    \/ \E s \in callers, fault \in BOOLEAN : TxInsert(s, fault)
    \/ \E s \in callers : TxCommit(s)
    \/ \E s \in callers : SyncReturns(s)
    \/ \E a \in Authors : ReadFollowedDids(a)

\* One fetchAndCacheFollows call at a time (any author, again and again)
\* and the readers of the follow table.
NextFollow == FollowNext({"login"})
SpecFollow == Init /\ [][NextFollow]_vars



\* The events the unscripted stream delivers: every event on one author's
\* status record, and beside them the creation (of one valid record) and
\* the deletion of the other records.
StreamEvents ==
    {evt \in Events : evt.did = "did:alice" /\ evt.collection = StatusCollection}
    \cup {evt \in Events : /\ evt.event # "update"
                            /\ evt.record.kind # "invalid"
                            /\ evt.record.status \in {"happy", ""}
                            /\ evt.record.createdAt \in {"t1", ""}}

\* The identity resolver knows no document, or none with a PDS: a profile
\* backfill ends at resolution.
ResolutionFails ==
    \E frame \in BagToSet(fetches), outcome \in {"null", "no_pds"} :
        ResolveDid(frame, outcome)

\* The ingester on the stream, with the identity resolver failing every
\* request: each profile backfill ends at resolution.
NextIngest ==
    \/ \E evt \in StreamEvents, fault \in BOOLEAN : HandleEvent(evt, fault)
    \/ \E fault \in BOOLEAN : CheckProfile(fault)
    \/ HandlerReturns
    \/ ResolutionFails
    \/ Tick
SpecIngest == Init /\ [][NextIngest]_vars

\* At-least-once delivery: the stream delivers create(v1), update(v2) and
\* then create(v1) once more, for one status URI.
Redelivery(did, v1, v2) ==
    LET evt(kind, record) ==
            [event |-> kind, collection |-> StatusCollection, did |-> did,
             record |-> record]
    IN <<evt("create", v1), evt("update", v2), evt("create", v1)>>
InitRedelivery ==
    \E did \in Authors, v1, v2 \in ValidStatusRecords :
        v1 # v2 /\ InitWith(Redelivery(did, v1, v2))
NextRedelivery ==
    \/ DeliverScripted
    \/ CheckProfile(FALSE)
    \/ HandlerReturns
    \/ ResolutionFails
    \/ Tick
SpecRedelivery == InitRedelivery /\ [][NextRedelivery]_vars

\* The ingester with the profile backfills it launches running to their
\* end: the events are those on one author's status record, with one valid
\* record.
BackfillEvents ==
    {evt \in StreamEvents :
        /\ evt.did = "did:alice"
        /\ evt.collection = StatusCollection
        /\ evt.record.status # "sad" /\ evt.record.createdAt # "t2"}
\* A backfill in flight takes its next step, whatever the identity
\* resolver, the author's PDS and the store answer.
FetchResolves ==
    \E frame \in BagToSet(fetches), outcome \in ResolveOutcomes :
        ResolveDid(frame, outcome)
FetchGetsRecord ==
    \E frame \in BagToSet(fetches),
       response \in ProfileValues \cup {InvalidProfile, NoProfileValue} :
        GetRecord(frame, response)
FetchUpserts ==
    \E frame \in BagToSet(fetches), fault \in BOOLEAN : UpsertFetched(frame, fault)
NextBackfill ==
    \/ \E evt \in BackfillEvents, fault \in BOOLEAN : HandleEvent(evt, fault)
    \/ \E fault \in BOOLEAN : CheckProfile(fault)
    \/ HandlerReturns
    \/ FetchResolves
    \/ FetchGetsRecord
    \/ FetchUpserts
    \/ Tick
SpecBackfill == Init /\ [][NextBackfill]_vars

\* Both writers of the profile table at work on one author: the stream
\* delivers the creation of the author's status, which launches backfills,
\* and the events on the author's profile record.
ProfileStreamEvents == {evt \in ProfileEvents : evt.did = "did:alice"}
LaunchingEvents ==
    {evt \in BackfillEvents : evt.event = "create" /\ evt.record.kind = "status"}
NextProfile ==
    \/ \E evt \in LaunchingEvents : HandleEvent(evt, FALSE)
    \/ CheckProfile(FALSE)
    \/ HandlerReturns
    \/ \E evt \in ProfileStreamEvents, fault \in BOOLEAN : HandleProfileEvent(evt, fault)
    \/ FetchResolves
    \/ FetchGetsRecord
    \/ FetchUpserts
    \/ Tick
SpecProfile == Init /\ [][NextProfile]_vars

\* The home page rendered while the ingester caches statuses and the
\* profile backfills cache their authors' profiles.
HomeEvents == {evt \in StreamEvents : evt.event = "create" /\ evt.collection = StatusCollection
                                        /\ evt.record.kind = "status"
                                        /\ evt.record.status = "happy"
                                        /\ evt.record.createdAt = "t1"}
\* A backfill in flight finds the author's PDS and a valid profile record
\* there, and the store takes its row.
ProfileServed ==
    \E frame \in BagToSet(fetches) :
        \/ ResolveDid(frame, "resolved")
        \/ \E response \in ProfileValues : GetRecord(frame, response)
        \/ UpsertFetched(frame, FALSE)
HomePageRequested == \E didHandleMap \in HandleMaps : RenderHome(didHandleMap)
NextHome ==
    \/ \E evt \in HomeEvents : HandleEvent(evt, FALSE)
    \/ CheckProfile(FALSE)
    \/ HandlerReturns
    \/ ProfileServed
    \/ HomePageRequested
SpecHome == Init /\ [][NextHome]_vars

\* The same, with the authors' repositories holding no profile record:
\* every getRecord of a backfill finds none.
RecordAbsent == \E frame \in BagToSet(fetches) : GetRecord(frame, NoProfileValue)
NextAbsent ==
    \/ \E evt \in LaunchingEvents : HandleEvent(evt, FALSE)
    \/ CheckProfile(FALSE)
    \/ HandlerReturns
    \/ \E evt \in ProfileStreamEvents, fault \in BOOLEAN : HandleProfileEvent(evt, fault)
    \/ FetchResolves
    \/ RecordAbsent
    \/ Tick
SpecAbsent == Init /\ [][NextAbsent]_vars

\* The staleness check on caches of every age around the interval: each
\* author was last synced at one of SyncTimes (all rows of one resync carry
\* its instant), each follow record is cached for one author or for none,
\* and the clock stands at one of the ages past a sync.
SyncTimes == {0, 61001}
Ages == {4 * 60 * 1000, SYNC_INTERVAL_MS - 1, SYNC_INTERVAL_MS,
         SYNC_INTERVAL_MS + 1, 6 * 60 * 1000}
Nobody == "nobody"
InitStale ==
    \E syncedAt \in [Authors -> SyncTimes],
       owner \in [FollowUris -> Authors \cup {Nobody}],
       t \in SyncTimes, age \in Ages :
        /\ now = t + age
        /\ follow = {[uri |-> uri, authorDid |-> owner[uri],
                      subjectDid |-> SubjectAt(uri),
                      indexedAt |-> ToISOString(syncedAt[owner[uri]])] :
                        uri \in {u \in FollowUris : owner[u] # Nobody}}
        /\ status = {}
        /\ profile = {}
        /\ NothingRunning
        /\ script = <<>>
        /\ pos = 0
        /\ app = RunningApp
NextStale == \E authorDid \in Authors : IsFollowCacheStale(authorDid)
SpecStale == InitStale /\ [][NextStale]_vars

\* The life of the application context, from createAppContext on a database
\* with none or some of the migrations applied to the end of destroy(),
\* with the stream delivering the events on one author's status record.
InitBoot ==
    \E k \in 0..Len(Migrations) :
        /\ now = 0
        /\ follow = {}
        /\ status = {}
        /\ profile = {}
        /\ NothingRunning
        /\ script = <<>>
        /\ pos = 0
        /\ app = BootingApp(k)
NextLifecycle ==
    \/ MigrationApplied
    \/ MigrationFails
    \/ CreateIngester
    \/ IngesterStart
    \/ DestroyCalled
    \/ IngesterStopped
    \/ DbDestroy
    \/ \E evt \in BackfillEvents, fault \in BOOLEAN : HandleEvent(evt, fault)
    \/ \E fault \in BOOLEAN : CheckProfile(fault)
    \/ HandlerReturns
    \/ ResolutionFails
SpecLifecycle == InitBoot /\ [][NextLifecycle]_vars

\* destroy() called on a running context while profile backfills are in
\* flight: the resolver and the PDS answer every backfill with a valid
\* profile record, and the store rejects a statement exactly when it has
\* been destroyed.
BackfillGoesOn ==
    \E frame \in BagToSet(fetches) :
        \/ ResolveDid(frame, "resolved")
        \/ \E response \in ProfileValues : GetRecord(frame, response)
        \/ UpsertFetched(frame, StoreClosed(app))
NextShutdown ==
    \/ \E evt \in LaunchingEvents : HandleEvent(evt, FALSE)
    \/ CheckProfile(FALSE)
    \/ HandlerReturns
    \/ BackfillGoesOn
    \/ DestroyCalled
    \/ IngesterStopped
    \/ DbDestroy
    \/ Tick
SpecShutdown == Init /\ [][NextShutdown]_vars

\* The remote requests of Follow Sync and of one profile backfill.  The
\* steps the process takes by itself (store statements, returns) are taken
\* whenever they can be; the answers of the remote services, the failures
\* of a request included, come when the services and the transport send
\* them, if ever: the calls arm no timer and pass no abort signal.
ListRecordsShort(s) ==
    \E records \in SeqsUpTo(RemoteRecords, 1) :
        \E cursor \in {NoCursor, CursorToken(sync[s].pages + 1)} :
            ListRecords(s, records, cursor)
SyncStep ==
    \/ TxBegin("login")
    \/ \E fault \in BOOLEAN : TxDelete("login", fault)
    \/ \E fault \in BOOLEAN : TxInsert("login", fault)
    \/ TxCommit("login")
HandlerStep ==
    \/ DeliverScripted
    \/ CheckProfile(FALSE)
    \/ HandlerReturns
InitRemote == \E evt \in LaunchingEvents : InitWith(<<evt>>)
NextRemote ==
    \/ StartSync("login", "did:alice")
    \/ ListRecordsShort("login")
    \/ ListRecordsFails("login")
    \/ SyncStep
    \/ SyncReturns("login")
    \/ HandlerStep
    \/ FetchResolves
    \/ FetchGetsRecord
    \/ FetchUpserts
\* A statement that waits for the store's connection gets it in its turn.
SpecRemote ==
    /\ InitRemote
    /\ [][NextRemote]_vars
    /\ WF_vars(SyncStep)
    /\ WF_vars(SyncReturns("login"))
    /\ SF_vars(HandlerStep)
    /\ SF_vars(FetchUpserts)

\* The login trigger and the staleness trigger call fetchAndCacheFollows
\* for one author while the author's repository changes: each call is
\* answered in one page, with the follow records of the repository at
\* that moment.
RepoSnapshots ==
    LET rec(u) == [uri |-> u, subject |-> SubjectAt(u)]
    IN  {<<>>, <<rec("at://f1")>>, <<rec("at://f2")>>,
         <<rec("at://f1"), rec("at://f2")>>}
ListRecordsSnapshot(s) ==
    \E records \in RepoSnapshots : ListRecords(s, records, NoCursor)
NextOverlap ==
    \/ \E s \in Syncers : StartSync(s, "did:alice")
    \/ \E s \in Syncers : ListRecordsSnapshot(s)
    \/ \E s \in Syncers : ListRecordsFails(s)
    \/ \E s \in Syncers : TxBegin(s)
    \/ \E s \in Syncers, fault \in BOOLEAN : TxDelete(s, fault)
    \/ \E s \in Syncers, fault \in BOOLEAN : TxInsert(s, fault)
    \/ \E s \in Syncers : TxCommit(s)
    \/ \E s \in Syncers : SyncReturns(s)
    \/ Tick
SpecOverlap == Init /\ [][NextOverlap]_vars

\* Follow Sync of either author, each call answered in one page, beside
\* the ingester caching one author's status and the profile backfill it
\* launches.
NextBeside ==
    \/ \E did \in Authors : StartSync("login", did)
    \/ ListRecordsSnapshot("login")
    \/ ListRecordsFails("login")
    \/ SyncStep
    \/ SyncReturns("login")
    \/ \E evt \in LaunchingEvents : HandleEvent(evt, FALSE)
    \/ CheckProfile(FALSE)
    \/ HandlerReturns
    \/ ProfileServed
SpecBeside == Init /\ [][NextBeside]_vars

\* The staleness check beside Follow Sync, on a store in which one author
\* has just been synced (one edge cached at instant 0): each call is
\* answered in one page, which may hold no record.
InitResynced ==
    /\ now = 0
    /\ follow = {[uri |-> "at://f1", authorDid |-> "did:alice",
                  subjectDid |-> SubjectAt("at://f1"), indexedAt |-> ToISOString(0)]}
    /\ status = {}
    /\ profile = {}
    /\ NothingRunning
    /\ script = <<>>
    /\ pos = 0
    /\ app = RunningApp
StaleChecked == \E authorDid \in Authors : IsFollowCacheStale(authorDid)
NextResync ==
    \/ \E did \in Authors : StartSync("login", did)
    \/ ListRecordsSnapshot("login")
    \/ ListRecordsFails("login")
    \/ SyncStep
    \/ SyncReturns("login")
    \/ StaleChecked
    \/ Tick
SpecResync == InitResynced /\ [][NextResync]_vars

(* ------------------------- claims: Follow Sync ------------------------- *)

\* The loop over the pages has ended without an error.
Fetched(frame) ==
    \/ frame.pc \in {"begin", "delete", "insert", "commit"}
    \/ frame.pc = "done" /\ frame.failedAt # "list"

\* O: what getFollowedDids returned for the author when the call began.
OldDids(frame) == getFollowedDids(frame.old, frame.did)

\* The records of all pages that carry a subject.
WithSubject(frame) == {x \in Range(frame.received) : x.subject # NoSubject}

\* The rows that cache a set of fetched records for the author of the call.
RowsFor(frame, records) ==
    {[uri |-> x.uri, authorDid |-> frame.did, subjectDid |-> x.subject,
      indexedAt |-> ToISOString(frame.at)] : x \in records}

\* F: what getFollowedDids returns for the author once the fetched set is cached.
FreshDids(frame) == getFollowedDids(RowsFor(frame, WithSubject(frame)), frame.did)

\* C1: every getFollowedDids read of author A made while a
\* fetchAndCacheFollows call for A is in progress returns exactly the old
\* cached set O or exactly the fetched set F (never a mix of the two, a part
\* of F, or an empty list when neither O nor F is empty).
C1_ReadersSeeOldOrFresh ==
    \A s \in Syncers :
        LET frame == sync[s] IN
        (InCall(s) /\ ~frame.overlap /\ readResult # NoRead
            /\ readResult.author = frame.did)
        => \/ readResult.dids = OldDids(frame)
           \/ Fetched(frame) /\ readResult.dids = FreshDids(frame)

\* C1 witness: a read made during a call that replaced a non-empty O by a
\* different non-empty F returned F.
C1_Witness ==
    \E s \in Syncers :
        LET frame == sync[s] IN
        /\ frame.pc = "done" /\ frame.outcome = "cached" /\ ~frame.overlap
        /\ readResult # NoRead /\ readResult.author = frame.did
        /\ readResult.dids = FreshDids(frame)
        /\ FreshDids(frame) # OldDids(frame)
        /\ frame.old # {} /\ WithSubject(frame) # {}

\* C2 (as amended): after a successful fetchAndCacheFollows for author A the
\* cached edges of A are exactly the fetched records that carry a subject:
\* each of them is present, and every older edge of A is gone.
C2_ReplacedBySubjectRecords ==
    \A s \in Syncers :
        LET frame == sync[s] IN
        (frame.pc = "done" /\ frame.outcome = "cached" /\ ~frame.overlap)
        => EdgesOf(follow, frame.did) = RowsFor(frame, WithSubject(frame))

\* C2 as stated: after a successful call the cached edges of A are exactly
\* the fetched records, every fetched record being present.
C2_ReplacedByAllRecords ==
    \A s \in Syncers :
        LET frame == sync[s] IN
        (frame.pc = "done" /\ frame.outcome = "cached" /\ ~frame.overlap)
        => {r.uri : r \in EdgesOf(follow, frame.did)}
              = {x.uri : x \in Range(frame.received)}

\* C2 witness: a successful call dropped an edge that was unfollowed and
\* cached one that is new.
C2_Witness ==
    \E s \in Syncers :
        LET frame == sync[s] IN
        /\ frame.pc = "done" /\ frame.outcome = "cached" /\ ~frame.overlap
        /\ \E r \in frame.old : r.uri \notin {x.uri : x \in WithSubject(frame)}
        /\ \E x \in WithSubject(frame) : x.uri \notin {r.uri : r \in frame.old}

\* C3: when listRecords fails on any page, the call has executed no delete
\* and no insert, the author's rows are those cached before the call, the
\* failure is logged as a warning and the call returns without throwing.
C3_FetchFailureLeavesCache ==
    \A s \in Syncers :
        LET frame == sync[s] IN
        (frame.pc = "done" /\ frame.failedAt = "list")
        => /\ frame.stmts = 0
           /\ frame.outcome = "failed"
           /\ frame.logged = "warn"
           /\ ~frame.threw
           /\ ~frame.overlap => EdgesOf(follow, frame.did) = frame.old

\* C3 witness: listRecords failed after a page with records had been
\* received, for an author with cached edges.
C3_Witness ==
    \E s \in Syncers :
        LET frame == sync[s] IN
        /\ frame.pc = "done" /\ frame.failedAt = "list"
        /\ frame.pages >= 1 /\ frame.follows # <<>> /\ frame.old # {}

\* The cursors a correct pagination passes: none, then the one returned by
\* each previous page.
CursorChain(n) == [k \in 1..n |-> IF k = 1 THEN NoCursor ELSE CursorToken(k - 1)]

\* C4 (as amended): each request passes the cursor of the previous page, the
\* loop goes on exactly while the returned cursor is neither absent nor
\* empty, and after a successful call the number of edges cached for the
\* author is the number of records over all pages that carry a subject.
C4_PaginationComplete ==
    \A s \in Syncers :
        LET frame == sync[s] IN
        /\ frame.reqs = CursorChain(frame.pages)
        /\ (frame.pc = "list" /\ frame.pages > 0) => Truthy(frame.cursor)
        /\ Fetched(frame) => ~Truthy(frame.cursor)
        /\ (frame.pc = "done" /\ frame.outcome = "cached" /\ ~frame.overlap)
           => Cardinality(EdgesOf(follow, frame.did))
                 = Cardinality({k \in 1..Len(frame.received) :
                                   frame.received[k].subject # NoSubject})

\* C4 as stated: after a successful call the number of edges cached for the
\* author is the number of records over all pages.
C4_CountsAllRecords ==
    \A s \in Syncers :
        LET frame == sync[s] IN
        (frame.pc = "done" /\ frame.outcome = "cached" /\ ~frame.overlap)
        => Cardinality(EdgesOf(follow, frame.did)) = Len(frame.received)

\* C4 witness: a successful call over several pages whose records all carry
\* a subject cached as many edges as it received records.
C4_Witness ==
    \E s \in Syncers :
        LET frame == sync[s] IN
        /\ frame.pc = "done" /\ frame.outcome = "cached"
        /\ frame.pages >= 2 /\ Len(frame.received) >= 2
        /\ \A k \in 1..Len(frame.received) : frame.received[k].subject # NoSubject
        /\ Cardinality(EdgesOf(follow, frame.did)) = Len(frame.received)

(* ------------------------- claims: the ingester ------------------------ *)

\* What a stream event is, whatever the handler makes of it.
IsCreate(evt) == evt.event = "create" /\ evt.collection = StatusCollection
IsValidWrite(evt) ==
    /\ evt.event \in {"create", "update"}
    /\ evt.collection = StatusCollection
    /\ evt.record \in ValidStatusRecords
IsDelete(evt) == evt.event = "delete" /\ evt.collection = StatusCollection
IsInvalidWrite(evt) ==
    /\ evt.event \in {"create", "update"}
    /\ evt.collection = StatusCollection
    /\ evt.record = InvalidRecord
EvtUri == AtUri(ing.evt.did, ing.evt.collection)
RowsAt(tbl, uri) == {r \in tbl : r.uri = uri}

\* C5: when the store takes a valid status create event that is the very
\* event it took last for that URI, the table holds exactly one row for the
\* URI afterwards, and the table differs from the one before the second
\* application in nothing but that row's indexedAt.
C5_RedeliveredCreateIsNoOp ==
    (/\ ing.pc # "idle"
     /\ ing.wrote
     /\ IsCreate(ing.evt)
     /\ applied[EvtUri] = ing.evt)
    => /\ Cardinality(RowsAt(status, EvtUri)) = 1
       /\ Cardinality(RowsAt(ing.before, EvtUri)) = 1
       /\ status = {IF r.uri = EvtUri THEN [r EXCEPT !.indexedAt = ToISOString(ing.at)] ELSE r :
                       r \in ing.before}

\* C5 happens: the same create was taken twice, the second time at a later
\* instant, beside a row of another URI.
C5_Witness ==
    /\ ing.pc = "handled"
    /\ ing.wrote
    /\ IsCreate(ing.evt)
    /\ applied[EvtUri] = ing.evt
    /\ status # ing.before
    /\ \E r \in status : r.uri # EvtUri

\* C6 as stated: once create(v1), update(v2) and the re-delivered
\* create(v1) have been applied, the row of the URI carries the status value
\* of v2.
C6_RedeliveryKeepsUpdate ==
    (script # <<>> /\ pos = Len(script) /\ ing.pc = "idle")
    => \E r \in status :
          /\ r.uri = AtUri(script[2].did, StatusCollection)
          /\ r.status = script[2].record.status

\* C6 happens: the three events have been applied and the row is back at
\* the status value of v1, which is not that of v2.
C6_Witness ==
    /\ script # <<>> /\ pos = Len(script) /\ ing.pc = "idle"
    /\ script[1].record.status # script[2].record.status
    /\ \A r \in status : r.status = script[1].record.status
    /\ status # {}

\* The last event the store took for a status URI, the one being handled
\* included.
LastApplied(uri) ==
    IF ing.pc # "idle" /\ ing.wrote /\ EvtUri = uri THEN ing.evt ELSE applied[uri]

\* C7: the status table never holds two rows of one URI, and it holds a row
\* of a URI exactly when the last event the store took for that URI was a
\* valid create or update; the row then carries that event's status value.
C7_LastAppliedWins ==
    /\ \A r1, r2 \in status : r1.uri = r2.uri => r1 = r2
    /\ \A r \in status : r.uri \in StatusUris
    /\ \A uri \in StatusUris :
          /\ RowsAt(status, uri) # {} <=> IsValidWrite(LastApplied(uri))
          /\ \A r \in RowsAt(status, uri) : r.status = LastApplied(uri).record.status

\* C7 happens: an update has changed the status value of a row that a
\* create made, after the URI had been deleted once.
C7_Witness ==
    /\ ing.pc = "handled"
    /\ ing.wrote
    /\ ing.evt.event = "update"
    /\ applied[EvtUri].event = "create"
    /\ \E r \in RowsAt(ing.before, EvtUri) : r.status # ing.evt.record.status
    /\ \E uri \in StatusUris : uri # EvtUri /\ applied[uri].event = "delete"

\* C8: a status delete event the store executes for a URI that has no row
\* (never created, or deleted by the event before) affects zero rows, the
\* handler's promise resolves, and the status table is as it was.
C8_DeleteOfAbsentRow ==
    (/\ ing.pc = "handled"
     /\ ing.wrote
     /\ IsDelete(ing.evt)
     /\ (RowsAt(ing.before, EvtUri) = {} \/ IsDelete(applied[EvtUri])))
    => /\ ing.rows = 0
       /\ ~ing.threw
       /\ status = ing.before

\* C8 happens: a URI is deleted the second time while another URI has a
\* row.
C8_Witness ==
    /\ ing.pc = "handled"
    /\ ing.wrote
    /\ IsDelete(ing.evt)
    /\ IsDelete(applied[EvtUri])
    /\ status # {}

\* C9: the handler of a status create or update whose record fails the
\* schema check is a single step that changes none of the status, profile
\* and follow tables, launches no profile fetch, and ends with the
\* handler's promise resolved.
C9_InvalidRecordIsDiscarded ==
    [][(ing.pc = "idle" /\ ing'.pc # "idle" /\ IsInvalidWrite(ing'.evt))
       => /\ status' = status
          /\ profile' = profile
          /\ follow' = follow
          /\ fetches' = fetches
          /\ ing'.pc = "handled"
          /\ ing'.stmts = 0
          /\ ~ing'.threw]_vars

\* C9 happens: an invalid record has been handled for a URI that has a
\* cached row.
C9_Witness ==
    /\ ing.pc = "handled"
    /\ IsInvalidWrite(ing.evt)
    /\ RowsAt(status, EvtUri) # {}


\* C10: a handler that has upserted a valid status create or update calls
\* fetchAndCacheProfile for the author exactly when its select finds no
\* profile row of the author at that moment, and then launches one call;
\* the first statement of no handler launches one, and the handler of a
\* delete or of an invalid record ends there.
C10_FetchIffProfileAbsent ==
    [][/\ (ing.pc = "check" /\ ing'.pc = "handled" /\ ~ing'.threw)
          => fetches' =
                IF \E r \in profile : r.did = ing.evt.did
                THEN fetches
                ELSE fetches (+) SetToBag({NewFetch(ing.evt.did)})
       /\ (ing.pc = "idle" /\ ing'.pc # "idle")
          => /\ fetches' = fetches
             /\ ~IsValidWrite(ing'.evt) => ing'.pc = "handled"]_vars

\* C10 happens: the author had no profile row when the handler began, an
\* earlier backfill cached one before the check, and no fetch was launched.
C10_Witness ==
    /\ ing.pc = "handled"
    /\ IsValidWrite(ing.evt)
    /\ ~ing.hadProfile
    /\ ing.found = "row"
    /\ ~ing.launched

\* C11: the handler never stands waiting for a backfill: whatever calls
\* of fetchAndCacheProfile are in flight, a handler past its statements can
\* return, and the stream can then hand the next event to the handler.
C11_HandlerDoesNotAwaitFetch ==
    /\ ing.pc \in {"idle", "check", "handled"}
    /\ ing.pc = "handled" => ENABLED HandlerReturns
    /\ ing.pc = "idle" => \A evt \in BackfillEvents : ENABLED HandleEvent(evt, FALSE)

\* C11 happens: a backfill launched by a status write has its upsert still
\* ahead of it, nothing is cached yet, and the store has since taken the
\* deletion of that status.
C11_Witness ==
    /\ ing.pc = "idle"
    /\ profile = {}
    /\ status = {}
    /\ \E uri \in StatusUris : IsDelete(applied[uri])
    /\ \E frame \in BagToSet(fetches) : frame.pc = "upsert"

\* C12: a fetchAndCacheProfile call that ends, on whatever path, ends with
\* its promise resolved; and unless it ends by a successful upsert (its
\* last log line is 'cached profile') the step that ends it leaves the
\* profile table as it was.
C12_FetchNeverThrows ==
    [][BagCardinality(fetches') < BagCardinality(fetches)
       => /\ ~settled'.threw
          /\ settled'.outcome \in {"debug", "warn", "cached"}
          /\ settled'.outcome # "cached" => profile' = profile]_vars

\* C12 happens: a call has ended in the catch block, by the store's
\* rejection of its upsert, while a row cached earlier is still there.
C12_Witness ==
    /\ settled = FetchCaught(NewFetch("did:alice"))
    /\ profile # {}
    /\ fetches = EmptyBag

\* C13 as stated: when the store takes a valid status create or update for
\* a URI that has a row, the row of the URI afterwards is the row a fresh
\* insert of the event makes: authorDid, status, createdAt and indexedAt are
\* all the event's.
C13_UpsertOverwritesRow ==
    (/\ ing.pc # "idle"
     /\ ing.wrote
     /\ IsValidWrite(ing.evt)
     /\ RowsAt(ing.before, EvtUri) # {})
    => RowsAt(status, EvtUri) = {StatusRowOf(ing.evt, ing.at)}

\* C13 happens: an update with another createdAt was upserted onto a row,
\* and the row kept the createdAt it had.
C13_Witness ==
    /\ ing.pc = "handled"
    /\ ing.wrote
    /\ ing.evt.event = "update"
    /\ \E r \in RowsAt(status, EvtUri) :
          /\ r.status = ing.evt.record.status
          /\ r.indexedAt = ToISOString(ing.at)
          /\ r.createdAt # ing.evt.record.createdAt
          /\ \E old \in RowsAt(ing.before, EvtUri) : old.createdAt = r.createdAt

(* ----------------------- claims: the profile table --------------------- *)

\* The author's row as the cache stores a profile record, indexedAt aside.
Cached(did, record) == ProfileRowOf(did, record, 0)
SameBut(row) == [row EXCEPT !.indexedAt = ToISOString(0)]

\* This step is a profile upsert of `record` for `did` that the store
\* executes: by the handler of a profile stream event, or by a
\* fetchAndCacheProfile call.
StreamUpsertLands(did, record) ==
    /\ ing.pc = "idle" /\ ing'.pc = "handled" /\ ing'.wrote
    /\ ing'.evt.collection = ProfileCollection
    /\ ing'.evt.event \in {"create", "update"}
    /\ ing'.evt.did = did /\ ing'.evt.record = record
PullUpsertLands(did, record) ==
    /\ settled'.outcome = "cached"
    /\ \E frame \in BagToSet(fetches) :
          /\ frame.pc = "upsert" /\ frame.did = did /\ frame.value = record
          /\ fetches' = Retire(fetches, frame)

\* C14: when a profile record is upserted for a DID whose last profile
\* write was an upsert of the same record (either by the stream handler or
\* by fetchAndCacheProfile), the profile table afterwards differs from the
\* one before in the indexedAt of that DID's row at most, and it holds
\* exactly one row of the DID, with the columns the record gives.
C14_SameSnapshotTwice ==
    [][\A did \in Authors, record \in ProfileValues :
          (/\ landed[did] = record
           /\ StreamUpsertLands(did, record) \/ PullUpsertLands(did, record))
          => /\ profile' = {IF r.did = did THEN [r EXCEPT !.indexedAt = ToISOString(now)] ELSE r :
                               r \in profile}
             /\ Cardinality({r \in profile' : r.did = did}) = 1
             /\ \A r \in profile' : r.did = did => SameBut(r) = Cached(did, record)]_vars

\* C14 happens: a stream event has upserted, at a later instant, the record
\* that a fetchAndCacheProfile call had cached.
C14_Witness ==
    /\ ing.pc = "handled" /\ ing.wrote
    /\ IsProfileWrite(ing.evt)
    /\ ing.prior = ing.evt.record
    /\ settled.outcome = "cached"
    /\ ing.at > 0
    /\ \E r \in profile : r.did = ing.evt.did /\ r.indexedAt = ToISOString(ing.at)

\* C15: whatever the stream handler and the fetchAndCacheProfile calls have
\* written, and in whatever order, the profile table holds at most one row
\* of a DID, and that row is in every column the row of the record written
\* last for the DID; a DID whose last write was a deletion has no row.
C15_LastProfileWriteWins ==
    \A did \in Authors :
       IF landed[did].kind = "profile"
       THEN {SameBut(r) : r \in {x \in profile : x.did = did}} = {Cached(did, landed[did])}
            /\ Cardinality({r \in profile : r.did = did}) = 1
       ELSE {r \in profile : r.did = did} = {}

\* C15 happens: a stream event has overwritten the row with another record
\* while a fetchAndCacheProfile call that holds the earlier record has its
\* upsert still ahead.
C15_Witness ==
    /\ ing.pc = "handled" /\ ing.wrote
    /\ IsProfileWrite(ing.evt)
    /\ ing.prior.kind = "profile"
    /\ ing.prior # ing.evt.record
    /\ \E frame \in BagToSet(fetches) :
          frame.pc = "upsert" /\ frame.did = ing.evt.did /\ frame.value = ing.prior

\* C16 as stated: when a fetchAndCacheProfile call ends because getRecord
\* found no profile record in the author's repository, the profile table
\* holds no row of that author afterwards.
C16_AbsentRecordDeletesRow ==
    [][\A frame \in BagToSet(fetches) :
          (frame.pc = "getRecord" /\ fetches' = Retire(fetches, frame))
          => {r \in profile' : r.did = frame.did} = {}]_vars

\* C16 happens: every call that got as far as getRecord has ended without
\* a record, and a row of the author is cached.
C16_Witness ==
    /\ settled.outcome = "debug"
    /\ fetches = EmptyBag
    /\ \E r \in profile : r.did = "did:alice"

(* --------------------------- claims: staleness ------------------------- *)

\* The instant of the author's latest cached edge.
LastSynced(did) ==
    LET instants == {DateParse(r.indexedAt) : r \in {x \in follow : x.authorDid = did}}
    IN  CHOOSE m \in instants : \A other \in instants : other <= m

\* C17: for an author with a cached follow edge, isFollowCacheStale returns
\* true exactly when the clock is more than five minutes past the author's
\* latest indexedAt: at six minutes it returns true, at four minutes (and
\* at five minutes sharp) false.
C17_StaleAfterFiveMinutes ==
    (/\ staleResult # NoStale
     /\ \E r \in follow : r.authorDid = staleResult.author)
    => LET age == now - LastSynced(staleResult.author) IN
       /\ staleResult.stale <=> age > 5 * 60 * 1000
       /\ age = 6 * 60 * 1000 => staleResult.stale
       /\ age = 4 * 60 * 1000 => ~staleResult.stale

\* C17 happens: a cache of two edges synced six minutes ago is reported
\* stale.
C17_Witness ==
    /\ staleResult.stale
    /\ Cardinality({r \in follow : r.authorDid = staleResult.author}) = 2
    /\ now - LastSynced(staleResult.author) = 6 * 60 * 1000
    /\ now # 6 * 60 * 1000

(* --------------------- claims: the application context ----------------- *)

\* C18: the store is never closed while the stream subscription is alive:
\* whenever db.destroy() has run, ingester.destroy() has finished, and no
\* handler begins on a closed store.
C18_StoreOutlivesIngester ==
    /\ StoreClosed(app) => app.ingester = "destroyed"
    /\ StoreClosed(app) => \A evt \in BackfillEvents : ~ENABLED HandleEvent(evt, FALSE)

\* C18 happens: destroy() has closed the store of a context whose ingester
\* had handled status events.
C18_Witness ==
    /\ app.pc = "destroyed"
    /\ StoreClosed(app)
    /\ status # {}

\* C19: an ingester exists only on a fully migrated schema, and so do a
\* returned context and every handled event; when a migration has failed,
\* createAppContext has rejected, there is no ingester and no context.
C19_MigrateBeforeIngest ==
    /\ app.ingester # "none" => app.schema = Len(Migrations)
    /\ app.pc \in {"ready", "stopping", "destroyed"} => app.schema = Len(Migrations)
    /\ ing.pc # "idle" => app.schema = Len(Migrations)
    /\ app.pc = "failed" => app.ingester = "none" /\ app.schema < Len(Migrations)

\* C19 happens: the second migration had been applied when the third
\* failed, and createAppContext has rejected.
C19_Witness ==
    /\ app.pc = "failed"
    /\ app.schema = 2
    /\ app.ingester = "none"

(* ------------------------- claims: remote requests --------------------- *)

\* C20 as stated: a fetchAndCacheFollows call that awaits listRecords
\* always comes to its end, and a fetchAndCacheProfile call in flight always
\* ends, whether or not the remote services answer.
C20_RemoteCallsTerminate ==
    /\ (sync["login"].pc = "list") ~> (sync["login"].pc = "done")
    /\ (fetches # EmptyBag) ~> (fetches = EmptyBag)

\* C20 happens: a fetchAndCacheFollows call awaits a listRecords page and a
\* fetchAndCacheProfile call awaits getRecord, with every step the process
\* can take by itself taken.
C20_Witness ==
    /\ sync["login"].pc = "list"
    /\ sync["login"].pages = 1
    /\ \E frame \in BagToSet(fetches) : frame.pc = "getRecord"
    /\ ing.pc = "idle"
    /\ pos = Len(script)


(* ------------- events outside the subscribed collections -------------- *)

\* C21: the handler of an event (create, update or delete) whose collection
\* is not in filterCollections is a single step that executes no
\* statement, changes none of the status, profile and follow tables,
\* launches no profile fetch, and ends with the handler's promise
\* resolved.
C21_UnsubscribedCollectionIgnored ==
    [][(ing.pc = "idle" /\ ing'.pc # "idle"
            /\ ing'.evt.collection # StatusCollection)
       => /\ status' = status
          /\ profile' = profile
          /\ follow' = follow
          /\ fetches' = fetches
          /\ ing'.pc = "handled"
          /\ ing'.stmts = 0
          /\ ~ing'.wrote
          /\ ~ing'.threw]_vars

\* C21 happens: a valid status record of another collection has been
\* handled while the status table holds a row of the same author.
C21_Witness ==
    /\ ing.pc = "handled"
    /\ ing.evt.collection = ProfileCollection
    /\ ing.evt.event = "create"
    /\ ing.evt.record \in ValidStatusRecords
    /\ \E r \in status : r.authorDid = ing.evt.did
    /\ ~ing.threw


(* -------------------- claims: overlapping resyncs --------------------- *)

\* The rows a call writes when its transaction commits.
Snapshot(frame) == BatchRows(frame, frame.follows)

\* Both calls are in progress, or finished and not yet returned, for one
\* author.
BothFor(did) == \A s \in Syncers : InCall(s) /\ sync[s].did = did

\* C22: while two fetchAndCacheFollows calls for one author overlap, the
\* author's edge set as statements outside the transactions see it is the
\* set one of the calls found when it began, or the whole snapshot of one
\* of the two calls; and when both have finished it is the whole snapshot
\* of the call whose transaction committed last (the set found at the
\* beginning when neither committed).
C22_OverlapShowsWholeSnapshots ==
    \A did \in Authors :
        BothFor(did) =>
            LET seen == EdgesOf(Committed, did) IN
            /\ \E s \in Syncers :
                  \/ seen = sync[s].old
                  \/ Fetched(sync[s]) /\ seen = Snapshot(sync[s])
            /\ (\A s \in Syncers : sync[s].pc = "done")
                  => /\ \A s \in Syncers :
                            sync[s].last => seen = Snapshot(sync[s])
                     /\ (\A s \in Syncers : ~sync[s].last)
                            => \E s \in Syncers : seen = sync[s].old

\* C22 happens: two overlapping calls for one author fetched different
\* non-empty snapshots over a non-empty cache, both committed, and the
\* one that committed last is not the one that committed first.
C22_Witness ==
    /\ BothFor("did:alice")
    /\ \A s \in Syncers : sync[s].pc = "done" /\ sync[s].outcome = "cached"
    /\ sync["login"].old # {} /\ sync["stale"].old = sync["login"].old
    /\ Snapshot(sync["login"]) # Snapshot(sync["stale"])
    /\ Snapshot(sync["login"]) # {} /\ Snapshot(sync["stale"]) # {}
    /\ sync["login"].old \notin {Snapshot(sync["login"]), Snapshot(sync["stale"])}
    /\ sync["login"].last
    /\ EdgesOf(follow, "did:alice") = Snapshot(sync["login"])


(* ------------------------- claims: the home page ----------------------- *)

\* The handle-style identifier of an author on a page: the handle the page
\* was given for the author, or the DID when it was given none.
HandleStyle(page, did) ==
    IF page.handles[did] # Undefined THEN page.handles[did] ELSE did

\* C23: every rendering of the home page labels each cached status with
\* its author: "@" and the handle-style identifier alone when no profile
\* row is cached for the author or the row has no displayName, and the
\* displayName followed by " (@", the identifier and ")" when a profile
\* row with a non-empty displayName is cached.
C23_AuthorLabelFallback ==
    [][rendered' # rendered
        => /\ DOMAIN rendered'.labels = {s.uri : s \in status}
           /\ \A s \in status :
                 LET id == HandleStyle(rendered', s.authorDid)
                     named == {p \in profile : /\ p.did = s.authorDid
                                               /\ p.displayName \notin {Null, ""}}
                 IN  /\ named = {} => rendered'.labels[s.uri] = <<"@", id>>
                     /\ \A p \in named :
                           rendered'.labels[s.uri] = <<p.displayName, " (@", id, ")">>]_vars

\* C23 happens: a page shows one author by displayName and handle, and
\* another, whose cached profile has no displayName, by the DID alone.
C23_Witness ==
    /\ \E s \in status : /\ s.uri \in DOMAIN rendered.labels
                         /\ rendered.labels[s.uri] = <<"Alice", " (@", "alice.test", ")">>
                         /\ \E p \in profile : p.did = s.authorDid /\ p.displayName = "Alice"
    /\ \E s \in status : /\ s.uri \in DOMAIN rendered.labels
                         /\ rendered.labels[s.uri] = <<"@", s.authorDid>>
                         /\ \E p \in profile : p.did = s.authorDid /\ p.displayName = Null


(* ------------------ claims: the resync transaction -------------------- *)

\* C24: the delete and every insert batch of a fetchAndCacheFollows call
\* run while the call's transaction holds the connection, the author's
\* committed rows being still those found at the beginning; and when an
\* insert batch fails, the author's rows are again exactly those found at
\* the beginning (the delete and the earlier batches are undone), the
\* connection is released, the failure is logged as a warning and the
\* call returns without throwing.
C24_FailedBatchRollsBackAll ==
    \A s \in Syncers :
        LET frame == sync[s] IN
        /\ (frame.pc \in {"delete", "insert", "commit"} /\ ~frame.overlap)
              => /\ conn = s
                 /\ EdgesOf(txUndo, frame.did) = frame.old
        /\ (frame.pc = "done" /\ frame.failedAt = "insert" /\ ~frame.overlap)
              => /\ EdgesOf(follow, frame.did) = frame.old
                 /\ conn = NoTx
                 /\ frame.outcome = "failed"
                 /\ frame.logged = "warn"
                 /\ ~frame.threw

\* C24 happens: the delete and a first batch were executed over a
\* non-empty cache, a later batch failed, and the cache holds the old
\* rows, which are not the rows of the first batch.
C24_Witness ==
    \E s \in Syncers :
        LET frame == sync[s] IN
        /\ frame.pc = "done" /\ frame.failedAt = "insert"
        /\ frame.stmts >= 2
        /\ frame.old # {}
        /\ {r.uri : r \in frame.old} # {frame.follows[k].uri : k \in 1..BatchSize}
        /\ EdgesOf(follow, frame.did) = frame.old


(* ------------------- claims: shutdown and backfills -------------------- *)

\* A fetchAndCacheProfile call at its store write ends in this step.
WriteEnds(frame) ==
    /\ BagIn(frame, fetches)
    /\ frame.pc = "upsert"
    /\ fetches' = Retire(fetches, frame)

\* C25: no step of destroy() removes a profile backfill in flight, and
\* db.destroy() can run as soon as ingester.destroy() has returned and
\* the connection is free, whatever backfills are in flight; a backfill
\* whose store write comes after the store was closed writes nothing,
\* logs a warning and returns without throwing; no backfill step after
\* the close throws, and the context stays destroyed.
C25_DestroyIgnoresBackfills ==
    [][/\ app' # app => fetches' = fetches
       /\ (app.pc = "stopping" /\ app.ingester = "destroyed" /\ conn = NoTx)
             => ENABLED DbDestroy
       /\ (app.db = "closed" /\ \E frame \in BagToSet(fetches) : WriteEnds(frame))
             => /\ profile' = profile
                /\ settled' = [outcome |-> "warn", threw |-> FALSE]
       /\ (app.db = "closed" /\ fetches' # fetches) => ~settled'.threw
       /\ app.pc = "destroyed" => app' = app]_vars

\* C25 happens: destroy() has completed while a backfill was in flight,
\* the backfill reached its store write afterwards and ended with a
\* warning, and no profile row was written.
C25_Witness ==
    /\ app.pc = "destroyed" /\ app.db = "closed"
    /\ settled = [outcome |-> "warn", threw |-> FALSE]
    /\ fetches = EmptyBag
    /\ profile = {}
    /\ status # {}


(* --------------------- claims: resync timestamps ----------------------- *)

\* All rows of the table for one author carry one indexedAt.
OneStamp(tbl) ==
    \A r1 \in tbl, r2 \in tbl :
        r1.authorDid = r2.authorDid => r1.indexedAt = r2.indexedAt

\* C26: in every state the follow rows of one author, committed or
\* written so far by a transaction in progress, carry one indexedAt; the
\* rows a call has written carry the instant the call took once, after
\* its last page and before its transaction, and so do the author's rows
\* after its commit, until another transaction commits.
C26_OneTimestampPerResync ==
    /\ OneStamp(follow)
    /\ OneStamp(Committed)
    /\ \A s \in Syncers :
          LET frame == sync[s] IN
          /\ (conn = s /\ frame.pc \in {"insert", "commit"})
                => \A r \in EdgesOf(follow, frame.did) :
                      r.indexedAt = ToISOString(frame.at)
          /\ (frame.pc = "done" /\ frame.last)
                => \A r \in EdgesOf(Committed, frame.did) :
                      r.indexedAt = ToISOString(frame.at)

\* C26 happens: a call took its instant, the clock went on, and the call
\* has committed several rows over older ones that carried another
\* instant: all of them carry the instant the call took.
C26_Witness ==
    \E s \in Syncers :
        LET frame == sync[s] IN
        /\ frame.pc = "done" /\ frame.last
        /\ Cardinality(EdgesOf(follow, frame.did)) >= 2
        /\ frame.old # {}
        /\ \A r \in frame.old : r.indexedAt # ToISOString(frame.at)
        /\ \A r \in EdgesOf(follow, frame.did) : r.indexedAt = ToISOString(frame.at)


(* ---------------------- claims: what a resync leaves ------------------- *)

\* The rows of the table that belong to other authors than did.
EdgesOfOthers(tbl, did) == {r \in tbl : r.authorDid # did}

\* C27: no step of a fetchAndCacheFollows call for author A, from the call
\* to its return and whether its statements succeed or fail, changes a
\* follow row of another author, the status table or the profile table.
C27_ResyncTouchesOnlyItsAuthor ==
    [][\A s \in Syncers :
          sync'[s] # sync[s]
          => LET A == IF sync[s].pc = "idle" THEN sync'[s].did ELSE sync[s].did
             IN  /\ EdgesOfOthers(follow', A) = EdgesOfOthers(follow, A)
                 /\ status' = status
                 /\ profile' = profile]_vars

\* C27 happens: a call has replaced its author's rows while the follow
\* table holds rows of another author and the status and profile tables
\* hold rows.
C27_Witness ==
    \E s \in Syncers :
        LET frame == sync[s] IN
        /\ frame.pc = "done" /\ frame.outcome = "cached"
        /\ EdgesOf(follow, frame.did) # frame.old
        /\ frame.old # {}
        /\ EdgesOfOthers(follow, frame.did) # {}
        /\ status # {}
        /\ profile # {}


(* ----------------------- claims: the empty cache ----------------------- *)

\* C28: in every state, isFollowCacheStale is true of each author that
\* has no follow row, whatever the clock says; it is so right after a
\* successful fetchAndCacheFollows that fetched no follow record, at the
\* very instant of the sync; and every isFollowCacheStale call made for
\* an author without rows returns true.
C28_EmptyCacheIsStale ==
    /\ [](\A authorDid \in Authors :
            (conn = NoTx /\ EdgesOf(follow, authorDid) = {})
                => isFollowCacheStale(follow, authorDid, now))
    /\ [](\A s \in Syncers :
            (sync[s].pc = "done" /\ sync[s].outcome = "cached" /\ sync[s].follows = <<>>)
                => isFollowCacheStale(follow, sync[s].did, sync[s].at))
    /\ [][(staleResult' # staleResult /\ EdgesOf(follow, staleResult'.author) = {})
             => staleResult'.stale]_vars

\* C28 happens: an author whose cache was fresh has been synced with no
\* follow record, the sync has committed and returned, and at the instant
\* of that sync isFollowCacheStale has returned true for the author.
C28_Witness ==
    /\ staleResult = [author |-> "did:alice", stale |-> TRUE]
    /\ sync["login"].pc = "done" /\ sync["login"].did = "did:alice"
    /\ sync["login"].outcome = "cached" /\ sync["login"].follows = <<>>
    /\ sync["login"].old # {}
    /\ now = sync["login"].at
    /\ EdgesOf(follow, "did:alice") = {}


(* --------------------- claims: primary-key conflicts ------------------- *)

\* The fetched follows name one record URI twice.
RepeatsUri(frame) ==
    \E i \in 1..Len(frame.follows), j \in 1..Len(frame.follows) :
        i # j /\ frame.follows[i].uri = frame.follows[j].uri

\* A fetched follow has the URI of a row cached for another author.
CachedElsewhere(frame) ==
    \E k \in 1..Len(frame.follows) :
        \E r \in EdgesOfOthers(follow, frame.did) : r.uri = frame.follows[k].uri

\* C29: a call whose fetched follows repeat a URI, or carry a URI cached
\* for another author, never reaches its commit; when it has ended, it has
\* failed inside the transaction, the author's rows are exactly those
\* cached before the call, the connection is released, a warning is
\* logged and the call has not thrown.
C29_KeyConflictRollsBack ==
    \A s \in Syncers :
        LET frame == sync[s] IN
        (Fetched(frame) /\ ~frame.overlap
            /\ (RepeatsUri(frame) \/ CachedElsewhere(frame)))
        => /\ frame.pc # "commit"
           /\ frame.pc = "done"
                 => /\ frame.outcome = "failed"
                    /\ frame.failedAt \in {"delete", "insert"}
                    /\ EdgesOf(follow, frame.did) = frame.old
                    /\ conn = NoTx
                    /\ frame.logged = "warn"
                    /\ ~frame.threw

\* C29 happens: over a non-empty cache the delete was executed, an insert
\* then failed for a call whose follows carry the URI of another author's
\* row, and the old rows are back.
C29_Witness ==
    \E s \in Syncers :
        LET frame == sync[s] IN
        /\ frame.pc = "done" /\ frame.failedAt = "insert"
        /\ CachedElsewhere(frame)
        /\ frame.stmts >= 1
        /\ frame.old # {}
        /\ EdgesOf(follow, frame.did) = frame.old


(* ------------------- claims: concurrent backfills ---------------------- *)

\* C30: the profile table never holds two rows of one DID, however the
\* backfills in flight interleave; and every handler of a valid status
\* event whose select finds no profile row of the author adds one more
\* fetchAndCacheProfile call for the author to those in flight, whether
\* or not others for the same author are in flight or have failed.
C30_OneProfileRowPerDid ==
    /\ [](\A did \in Authors : Cardinality({r \in profile : r.did = did}) <= 1)
    /\ [][(/\ ing.pc = "check" /\ ing'.pc = "handled" /\ ~ing'.threw
           /\ ~\E r \in profile : r.did = ing.evt.did)
          => /\ BagCardinality(fetches') = BagCardinality(fetches) + 1
             /\ CopiesIn(NewFetch(ing.evt.did), fetches')
                   = CopiesIn(NewFetch(ing.evt.did), fetches) + 1]_vars

\* C30 happens: two backfills of one author were in flight together; one
\* has cached its record, and the other stands at its store write with a
\* different record while the author's single row is in the table.
C30_Witness ==
    /\ settled.outcome = "cached"
    /\ Cardinality({r \in profile : r.did = "did:alice"}) = 1
    /\ \E frame \in BagToSet(fetches) :
          /\ frame.did = "did:alice"
          /\ frame.pc = "upsert"
          /\ frame.value # landed["did:alice"]

=============================================================================
